---- MODULE Spec2Model ----
(***************************************************************************)
(* Player Management API (src/main.py, src/schemas.py).                    *)
(*                                                                         *)
(* State: the Credential Store (users), the Player Store (players), the    *)
(* bearer tokens in circulation, the wall clock, the requests in flight    *)
(* (pending signups, calls of the player routes, uploads), and the last    *)
(* step with the response it gave.  A player route is one action for its   *)
(* signature (token and request validation) and one action per store call  *)
(* of its handler.                                                         *)
(*                                                                         *)
(* Program strings that the code inspects (strip, int, ilike, endswith)    *)
(* are sequences of characters.  A character is a one-character string,    *)
(* or, for a character that cannot be written in a TLA+ string, its code   *)
(* point written "U+XXXX".  Optional values are sequences of length 0      *)
(* (None) or 1 (the value).                                                *)
(***************************************************************************)
EXTENDS Integers, Sequences, FiniteSets, Bags, TLC

VARIABLES users, pending, issued, now, players, seq, dialect, input, uploads, calls,
          resp

vars == <<users, pending, issued, now, players, seq, dialect, input, uploads, calls, resp>>

-----------------------------------------------------------------------------
(* Bounds of the exploration.                                              *)
MaxId == 2
MaxRows == 2
MaxTokens == 2
MaxInflight == 2
MaxUploads == 1
MaxCalls == 2
MaxTime == 45

-----------------------------------------------------------------------------
(* Optional values and strings.                                            *)
None == <<>>
Some(v) == <<v>>

\* str.isspace: the characters str.strip() removes.
Whitespace ==
    {" ", "\t", "\n", "\r", "\f", "U+000B", "U+001C", "U+001D", "U+001E", "U+001F",
     "U+0085", "U+00A0", "U+1680", "U+2000", "U+2001", "U+2002", "U+2003", "U+2004",
     "U+2005", "U+2006", "U+2007", "U+2008", "U+2009", "U+200A", "U+2028", "U+2029",
     "U+202F", "U+205F", "U+3000"}

\* The whitespace int() ignores around a number: the separators U+001C to
\* U+001F are not part of it.
IntWhitespace == Whitespace \ {"U+001C", "U+001D", "U+001E", "U+001F"}

RECURSIVE LStripOf(_, _)
LStripOf(s, ws) == IF s # <<>> /\ Head(s) \in ws THEN LStripOf(Tail(s), ws) ELSE s

RECURSIVE RStripOf(_, _)
RStripOf(s, ws) ==
    IF s # <<>> /\ s[Len(s)] \in ws THEN RStripOf(SubSeq(s, 1, Len(s) - 1), ws) ELSE s

LStrip(s) == LStripOf(s, Whitespace)

RStrip(s) == RStripOf(s, Whitespace)

\* str.strip()
Strip(s) == RStrip(LStrip(s))

\* The decimal digits int() reads, 0 to 9 in each script.
DecimalDigits ==
    {<<"0", "1", "2", "3", "4", "5", "6", "7", "8", "9">>,
     <<"U+0660", "U+0661", "U+0662", "U+0663", "U+0664", "U+0665", "U+0666", "U+0667", "U+0668", "U+0669">>,
     <<"U+06F0", "U+06F1", "U+06F2", "U+06F3", "U+06F4", "U+06F5", "U+06F6", "U+06F7", "U+06F8", "U+06F9">>,
     <<"U+07C0", "U+07C1", "U+07C2", "U+07C3", "U+07C4", "U+07C5", "U+07C6", "U+07C7", "U+07C8", "U+07C9">>,
     <<"U+0966", "U+0967", "U+0968", "U+0969", "U+096A", "U+096B", "U+096C", "U+096D", "U+096E", "U+096F">>,
     <<"U+09E6", "U+09E7", "U+09E8", "U+09E9", "U+09EA", "U+09EB", "U+09EC", "U+09ED", "U+09EE", "U+09EF">>,
     <<"U+0A66", "U+0A67", "U+0A68", "U+0A69", "U+0A6A", "U+0A6B", "U+0A6C", "U+0A6D", "U+0A6E", "U+0A6F">>,
     <<"U+0AE6", "U+0AE7", "U+0AE8", "U+0AE9", "U+0AEA", "U+0AEB", "U+0AEC", "U+0AED", "U+0AEE", "U+0AEF">>,
     <<"U+0B66", "U+0B67", "U+0B68", "U+0B69", "U+0B6A", "U+0B6B", "U+0B6C", "U+0B6D", "U+0B6E", "U+0B6F">>,
     <<"U+0BE6", "U+0BE7", "U+0BE8", "U+0BE9", "U+0BEA", "U+0BEB", "U+0BEC", "U+0BED", "U+0BEE", "U+0BEF">>,
     <<"U+0C66", "U+0C67", "U+0C68", "U+0C69", "U+0C6A", "U+0C6B", "U+0C6C", "U+0C6D", "U+0C6E", "U+0C6F">>,
     <<"U+0CE6", "U+0CE7", "U+0CE8", "U+0CE9", "U+0CEA", "U+0CEB", "U+0CEC", "U+0CED", "U+0CEE", "U+0CEF">>,
     <<"U+0D66", "U+0D67", "U+0D68", "U+0D69", "U+0D6A", "U+0D6B", "U+0D6C", "U+0D6D", "U+0D6E", "U+0D6F">>,
     <<"U+0DE6", "U+0DE7", "U+0DE8", "U+0DE9", "U+0DEA", "U+0DEB", "U+0DEC", "U+0DED", "U+0DEE", "U+0DEF">>,
     <<"U+0E50", "U+0E51", "U+0E52", "U+0E53", "U+0E54", "U+0E55", "U+0E56", "U+0E57", "U+0E58", "U+0E59">>,
     <<"U+0ED0", "U+0ED1", "U+0ED2", "U+0ED3", "U+0ED4", "U+0ED5", "U+0ED6", "U+0ED7", "U+0ED8", "U+0ED9">>,
     <<"U+0F20", "U+0F21", "U+0F22", "U+0F23", "U+0F24", "U+0F25", "U+0F26", "U+0F27", "U+0F28", "U+0F29">>,
     <<"U+1040", "U+1041", "U+1042", "U+1043", "U+1044", "U+1045", "U+1046", "U+1047", "U+1048", "U+1049">>,
     <<"U+1090", "U+1091", "U+1092", "U+1093", "U+1094", "U+1095", "U+1096", "U+1097", "U+1098", "U+1099">>,
     <<"U+17E0", "U+17E1", "U+17E2", "U+17E3", "U+17E4", "U+17E5", "U+17E6", "U+17E7", "U+17E8", "U+17E9">>,
     <<"U+1810", "U+1811", "U+1812", "U+1813", "U+1814", "U+1815", "U+1816", "U+1817", "U+1818", "U+1819">>,
     <<"U+1946", "U+1947", "U+1948", "U+1949", "U+194A", "U+194B", "U+194C", "U+194D", "U+194E", "U+194F">>,
     <<"U+19D0", "U+19D1", "U+19D2", "U+19D3", "U+19D4", "U+19D5", "U+19D6", "U+19D7", "U+19D8", "U+19D9">>,
     <<"U+1A80", "U+1A81", "U+1A82", "U+1A83", "U+1A84", "U+1A85", "U+1A86", "U+1A87", "U+1A88", "U+1A89">>,
     <<"U+1A90", "U+1A91", "U+1A92", "U+1A93", "U+1A94", "U+1A95", "U+1A96", "U+1A97", "U+1A98", "U+1A99">>,
     <<"U+1B50", "U+1B51", "U+1B52", "U+1B53", "U+1B54", "U+1B55", "U+1B56", "U+1B57", "U+1B58", "U+1B59">>,
     <<"U+1BB0", "U+1BB1", "U+1BB2", "U+1BB3", "U+1BB4", "U+1BB5", "U+1BB6", "U+1BB7", "U+1BB8", "U+1BB9">>,
     <<"U+1C40", "U+1C41", "U+1C42", "U+1C43", "U+1C44", "U+1C45", "U+1C46", "U+1C47", "U+1C48", "U+1C49">>,
     <<"U+1C50", "U+1C51", "U+1C52", "U+1C53", "U+1C54", "U+1C55", "U+1C56", "U+1C57", "U+1C58", "U+1C59">>,
     <<"U+A620", "U+A621", "U+A622", "U+A623", "U+A624", "U+A625", "U+A626", "U+A627", "U+A628", "U+A629">>,
     <<"U+A8D0", "U+A8D1", "U+A8D2", "U+A8D3", "U+A8D4", "U+A8D5", "U+A8D6", "U+A8D7", "U+A8D8", "U+A8D9">>,
     <<"U+A900", "U+A901", "U+A902", "U+A903", "U+A904", "U+A905", "U+A906", "U+A907", "U+A908", "U+A909">>,
     <<"U+A9D0", "U+A9D1", "U+A9D2", "U+A9D3", "U+A9D4", "U+A9D5", "U+A9D6", "U+A9D7", "U+A9D8", "U+A9D9">>,
     <<"U+A9F0", "U+A9F1", "U+A9F2", "U+A9F3", "U+A9F4", "U+A9F5", "U+A9F6", "U+A9F7", "U+A9F8", "U+A9F9">>,
     <<"U+AA50", "U+AA51", "U+AA52", "U+AA53", "U+AA54", "U+AA55", "U+AA56", "U+AA57", "U+AA58", "U+AA59">>,
     <<"U+ABF0", "U+ABF1", "U+ABF2", "U+ABF3", "U+ABF4", "U+ABF5", "U+ABF6", "U+ABF7", "U+ABF8", "U+ABF9">>,
     <<"U+FF10", "U+FF11", "U+FF12", "U+FF13", "U+FF14", "U+FF15", "U+FF16", "U+FF17", "U+FF18", "U+FF19">>,
     <<"U+104A0", "U+104A1", "U+104A2", "U+104A3", "U+104A4", "U+104A5", "U+104A6", "U+104A7", "U+104A8", "U+104A9">>,
     <<"U+10D30", "U+10D31", "U+10D32", "U+10D33", "U+10D34", "U+10D35", "U+10D36", "U+10D37", "U+10D38", "U+10D39">>,
     <<"U+11066", "U+11067", "U+11068", "U+11069", "U+1106A", "U+1106B", "U+1106C", "U+1106D", "U+1106E", "U+1106F">>,
     <<"U+110F0", "U+110F1", "U+110F2", "U+110F3", "U+110F4", "U+110F5", "U+110F6", "U+110F7", "U+110F8", "U+110F9">>,
     <<"U+11136", "U+11137", "U+11138", "U+11139", "U+1113A", "U+1113B", "U+1113C", "U+1113D", "U+1113E", "U+1113F">>,
     <<"U+111D0", "U+111D1", "U+111D2", "U+111D3", "U+111D4", "U+111D5", "U+111D6", "U+111D7", "U+111D8", "U+111D9">>,
     <<"U+112F0", "U+112F1", "U+112F2", "U+112F3", "U+112F4", "U+112F5", "U+112F6", "U+112F7", "U+112F8", "U+112F9">>,
     <<"U+11450", "U+11451", "U+11452", "U+11453", "U+11454", "U+11455", "U+11456", "U+11457", "U+11458", "U+11459">>,
     <<"U+114D0", "U+114D1", "U+114D2", "U+114D3", "U+114D4", "U+114D5", "U+114D6", "U+114D7", "U+114D8", "U+114D9">>,
     <<"U+11650", "U+11651", "U+11652", "U+11653", "U+11654", "U+11655", "U+11656", "U+11657", "U+11658", "U+11659">>,
     <<"U+116C0", "U+116C1", "U+116C2", "U+116C3", "U+116C4", "U+116C5", "U+116C6", "U+116C7", "U+116C8", "U+116C9">>,
     <<"U+11730", "U+11731", "U+11732", "U+11733", "U+11734", "U+11735", "U+11736", "U+11737", "U+11738", "U+11739">>,
     <<"U+118E0", "U+118E1", "U+118E2", "U+118E3", "U+118E4", "U+118E5", "U+118E6", "U+118E7", "U+118E8", "U+118E9">>,
     <<"U+11950", "U+11951", "U+11952", "U+11953", "U+11954", "U+11955", "U+11956", "U+11957", "U+11958", "U+11959">>,
     <<"U+11C50", "U+11C51", "U+11C52", "U+11C53", "U+11C54", "U+11C55", "U+11C56", "U+11C57", "U+11C58", "U+11C59">>,
     <<"U+11D50", "U+11D51", "U+11D52", "U+11D53", "U+11D54", "U+11D55", "U+11D56", "U+11D57", "U+11D58", "U+11D59">>,
     <<"U+11DA0", "U+11DA1", "U+11DA2", "U+11DA3", "U+11DA4", "U+11DA5", "U+11DA6", "U+11DA7", "U+11DA8", "U+11DA9">>,
     <<"U+16A60", "U+16A61", "U+16A62", "U+16A63", "U+16A64", "U+16A65", "U+16A66", "U+16A67", "U+16A68", "U+16A69">>,
     <<"U+16AC0", "U+16AC1", "U+16AC2", "U+16AC3", "U+16AC4", "U+16AC5", "U+16AC6", "U+16AC7", "U+16AC8", "U+16AC9">>,
     <<"U+16B50", "U+16B51", "U+16B52", "U+16B53", "U+16B54", "U+16B55", "U+16B56", "U+16B57", "U+16B58", "U+16B59">>,
     <<"U+1D7CE", "U+1D7CF", "U+1D7D0", "U+1D7D1", "U+1D7D2", "U+1D7D3", "U+1D7D4", "U+1D7D5", "U+1D7D6", "U+1D7D7">>,
     <<"U+1D7D8", "U+1D7D9", "U+1D7DA", "U+1D7DB", "U+1D7DC", "U+1D7DD", "U+1D7DE", "U+1D7DF", "U+1D7E0", "U+1D7E1">>,
     <<"U+1D7E2", "U+1D7E3", "U+1D7E4", "U+1D7E5", "U+1D7E6", "U+1D7E7", "U+1D7E8", "U+1D7E9", "U+1D7EA", "U+1D7EB">>,
     <<"U+1D7EC", "U+1D7ED", "U+1D7EE", "U+1D7EF", "U+1D7F0", "U+1D7F1", "U+1D7F2", "U+1D7F3", "U+1D7F4", "U+1D7F5">>,
     <<"U+1D7F6", "U+1D7F7", "U+1D7F8", "U+1D7F9", "U+1D7FA", "U+1D7FB", "U+1D7FC", "U+1D7FD", "U+1D7FE", "U+1D7FF">>,
     <<"U+1E140", "U+1E141", "U+1E142", "U+1E143", "U+1E144", "U+1E145", "U+1E146", "U+1E147", "U+1E148", "U+1E149">>,
     <<"U+1E2F0", "U+1E2F1", "U+1E2F2", "U+1E2F3", "U+1E2F4", "U+1E2F5", "U+1E2F6", "U+1E2F7", "U+1E2F8", "U+1E2F9">>,
     <<"U+1E950", "U+1E951", "U+1E952", "U+1E953", "U+1E954", "U+1E955", "U+1E956", "U+1E957", "U+1E958", "U+1E959">>,
     <<"U+1FBF0", "U+1FBF1", "U+1FBF2", "U+1FBF3", "U+1FBF4", "U+1FBF5", "U+1FBF6", "U+1FBF7", "U+1FBF8", "U+1FBF9">>}

IsDigit(c) == \E run \in DecimalDigits : \E i \in 1..Len(run) : run[i] = c

DigitVal(c) ==
    LET run == CHOOSE r \in DecimalDigits : \E i \in 1..Len(r) : r[i] = c
    IN  (CHOOSE i \in 1..Len(run) : run[i] = c) - 1

\* An integer of the program is written as its decimal numeral: the
\* digits "0" to "9" without leading zeros, after a "-" when it is negative.
\* The program's integers have no upper limit; the store's do.
AsciiDigits == <<"0", "1", "2", "3", "4", "5", "6", "7", "8", "9">>

RECURSIVE DropZeros(_)
DropZeros(d) == IF Len(d) > 1 /\ Head(d) = "0" THEN DropZeros(Tail(d)) ELSE d

Numeral(negative, digits) ==
    LET m == DropZeros([i \in 1..Len(digits) |-> AsciiDigits[DigitVal(digits[i]) + 1]])
    IN  IF negative /\ m # <<"0">> THEN <<"-">> \o m ELSE m

\* The most digits int(s) converts (sys.get_int_max_str_digits()).
MaxStrDigits == 4300

\* int(s): whitespace around the number is ignored; the number is an
\* optional sign and digits, with single underscores allowed between two
\* digits.  None stands for ValueError, which a number of more than
\* MaxStrDigits digits raises as well.
ParseInt(s) ==
    LET t == RStripOf(LStripOf(s, IntWhitespace), IntWhitespace)
        signed == t # <<>> /\ Head(t) \in {"+", "-"}
        d == IF signed THEN Tail(t) ELSE t
        digits == SelectSeq(d, IsDigit)
    IN  IF /\ d # <<>>
           /\ Len(digits) <= MaxStrDigits
           /\ \A i \in 1..Len(d) :
                 \/ IsDigit(d[i])
                 \/ /\ d[i] = "_"
                    /\ 1 < i /\ i < Len(d)
                    /\ IsDigit(d[i - 1]) /\ IsDigit(d[i + 1])
        THEN Some(Numeral(signed /\ Head(t) = "-", digits))
        ELSE None

\* a <= b for two numerals without sign
RECURSIVE DigitsLE(_, _)
DigitsLE(a, b) ==
    \/ a = <<>>
    \/ DigitVal(Head(a)) < DigitVal(Head(b))
    \/ Head(a) = Head(b) /\ DigitsLE(Tail(a), Tail(b))

NumLE(a, b) == Len(a) < Len(b) \/ (Len(a) = Len(b) /\ DigitsLE(a, b))

\* str.endswith(suffix)
EndsWith(s, suffix) ==
    /\ Len(s) >= Len(suffix)
    /\ SubSeq(s, Len(s) - Len(suffix) + 1, Len(s)) = suffix

UpperCase == <<"A", "B", "C", "D", "E", "F", "G", "H", "I", "J", "K", "L", "M",
               "N", "O", "P", "Q", "R", "S", "T", "U", "V", "W", "X", "Y", "Z">>

LowerCase == <<"a", "b", "c", "d", "e", "f", "g", "h", "i", "j", "k", "l", "m",
               "n", "o", "p", "q", "r", "s", "t", "u", "v", "w", "x", "y", "z">>

\* The case folding of ILIKE: the letters A to Z.
Lower(c) ==
    IF \E i \in 1..Len(UpperCase) : UpperCase[i] = c
    THEN LowerCase[CHOOSE i \in 1..Len(UpperCase) : UpperCase[i] = c]
    ELSE c

LowerStr(s) == [i \in 1..Len(s) |-> Lower(s[i])]

\* s LIKE p: % stands for any run of characters, _ for any one character;
\* with esc, a backslash makes the character after it literal.
RECURSIVE LikeMatch(_, _, _)
LikeMatch(p, s, esc) ==
    IF p = <<>> THEN s = <<>>
    ELSE IF esc /\ Head(p) = "\\" /\ Len(p) > 1
    THEN s # <<>> /\ Head(s) = p[2] /\ LikeMatch(Tail(Tail(p)), Tail(s), esc)
    ELSE IF Head(p) = "%"
    THEN LikeMatch(Tail(p), s, esc) \/ (s # <<>> /\ LikeMatch(p, Tail(s), esc))
    ELSE IF Head(p) = "_"
    THEN s # <<>> /\ LikeMatch(Tail(p), Tail(s), esc)
    ELSE s # <<>> /\ Head(s) = Head(p) /\ LikeMatch(Tail(p), Tail(s), esc)

\* Player.name.ilike(f"%{pat}%") on a nullable column: pat goes into the
\* pattern as it is, so its % and _ are wildcards.  A rowid store (SQLite)
\* has no escape character, a sequence store (PostgreSQL) has the backslash.
ILike(name, pat, dia) ==
    /\ name # None
    /\ LikeMatch(LowerStr(<<"%">> \o pat \o <<"%">>), LowerStr(name[1]),
                 dia = "sequence")

-----------------------------------------------------------------------------
(* Password Hasher (auth.get_password_hash, auth.verify_password): a salted *)
(* one-way digest; verification recomputes the digest with the stored salt.*)
Salts == {"s1", "s2"}

Digest(salt, plaintext) == <<"bcrypt", salt, plaintext>>

get_password_hash(plaintext, salt) == [salt |-> salt, digest |-> Digest(salt, plaintext)]

verify_password(plaintext, hashed) == Digest(hashed.salt, plaintext) = hashed.digest

-----------------------------------------------------------------------------
(* Token Service (auth.create_access_token and the decoding step of        *)
(* auth.get_current_user): a token carries its subject, its absolute       *)
(* expiry and a signature made with the process-wide key.                  *)
ACCESS_TOKEN_EXPIRE_MINUTES == 30

SECRET_KEY == "secret"

NoToken == [kind |-> "none", sub |-> "", exp |-> 0, key |-> ""]

Garbage == [kind |-> "garbage", sub |-> "", exp |-> 0, key |-> ""]

create_access_token(sub, expires_delta, t) ==
    [kind |-> "jwt", sub |-> sub, exp |-> t + expires_delta, key |-> SECRET_KEY]

\* The subject of a token that verifies at time t, None otherwise.
decode_token(tok, t) ==
    IF tok.kind = "jwt" /\ tok.key = SECRET_KEY /\ t < tok.exp
    THEN Some(tok.sub)
    ELSE None

-----------------------------------------------------------------------------
(* Credential Store: a table of user rows, unique on username and on email.*)
UserRows(db, username) == {u \in db : u.username = username}

\* auth.get_user: the first row with that username, or None.
get_user(db, username) ==
    IF UserRows(db, username) = {} THEN None
    ELSE Some(CHOOSE u \in UserRows(db, username) :
                 \A v \in UserRows(db, username) : u.id <= v.id)

\* The unique constraints of the users table, checked by the store at commit.
UniqueViolation(db, row) ==
    \E u \in db : u.username = row.username \/ u.email = row.email

NextUserId(db) == IF db = {} THEN 1
                  ELSE (CHOOSE i \in {u.id : u \in db} : \A u \in db : u.id <= i) + 1

\* auth.authenticate_user
authenticate_user(db, username, password) ==
    LET found == get_user(db, username)
    IN  IF found = None THEN None
        ELSE IF ~verify_password(password, found[1].hashed_password) THEN None
        ELSE found

\* auth.get_current_active_user: the Auth Middleware.  None stands for 401.
get_current_active_user(tok, db, t) ==
    LET sub == decode_token(tok, t)
    IN  IF sub = None THEN None
        ELSE LET found == get_user(db, sub[1])
             IN  IF found = None THEN None
                 ELSE IF ~found[1].is_active THEN None
                 ELSE found

-----------------------------------------------------------------------------
(* Schemas (src/schemas.py).  A request body is the set of fields the      *)
(* client supplied together with their values (None is an explicit null).  *)
Fields == {"name", "position", "team", "age", "jersey_number"}

AllNone == [name |-> None, position |-> None, team |-> None,
            age |-> None, jersey_number |-> None]

NoBody == [set |-> {}, val |-> AllNone]

\* PlayerCreate(**fields): name is required and must be a string.
PlayerCreateValid(body) == "name" \in body.set /\ body.val.name # None

Given(body, f, v) == IF f \in body.set THEN v ELSE None

\* PlayerCreate.dict(): every field, the unsupplied ones at their default.
PlayerDict(body) ==
    [name |-> Given(body, "name", body.val.name),
     position |-> Given(body, "position", body.val.position),
     team |-> Given(body, "team", body.val.team),
     age |-> Given(body, "age", body.val.age),
     jersey_number |-> Given(body, "jersey_number", body.val.jersey_number)]

-----------------------------------------------------------------------------
(* Player Store: a table of player rows keyed by id.  The store assigns    *)
(* the id of a new row: a rowid store takes the largest id present plus    *)
(* one, a sequence store never hands an id out twice.                      *)
Dialects == {"rowid", "sequence"}

PlayerRows(db, id) == {p \in db : p.id = id}

\* db.query(Player).filter(Player.id == id).first()
get_player(db, id) ==
    IF PlayerRows(db, id) = {} THEN None ELSE Some(CHOOSE p \in PlayerRows(db, id) : TRUE)

MaxRowId(db) ==
    IF db = {} THEN 0 ELSE CHOOSE i \in {p.id : p \in db} : \A p \in db : p.id <= i

NewPlayerId(db, high, dia) == IF dia = "rowid" THEN MaxRowId(db) + 1 ELSE high + 1

\* models.Player(**data); db.add; db.commit
NewPlayerRow(id, data) ==
    [id |-> id, name |-> data.name, position |-> data.position, team |-> data.team,
     age |-> data.age, jersey_number |-> data.jersey_number]

\* for key, value in player.dict(exclude_unset=True).items(): setattr(...)
SetAttrs(row, body) ==
    [id |-> row.id,
     name |-> IF "name" \in body.set THEN body.val.name ELSE row.name,
     position |-> IF "position" \in body.set THEN body.val.position ELSE row.position,
     team |-> IF "team" \in body.set THEN body.val.team ELSE row.team,
     age |-> IF "age" \in body.set THEN body.val.age ELSE row.age,
     jersey_number |-> IF "jersey_number" \in body.set THEN body.val.jersey_number
                       ELSE row.jersey_number]

\* The value each field has after the loop of setattr, and the fields the
\* loop changed: the UPDATE that commit sends sets those and no other.
Changed(row, body) == {f \in body.set : body.val[f] # row[f]}

Written(row, body, changed) == SetAttrs(row, [set |-> changed, val |-> body.val])

\* The integers a column of the store holds: 64 bits in a rowid store
\* (SQLite INTEGER), 32 bits in a sequence store (PostgreSQL integer).
IntLimit(dia) ==
    IF dia = "rowid"
    THEN <<"9", "2", "2", "3", "3", "7", "2", "0", "3", "6", "8", "5", "4", "7", "7",
           "5", "8", "0", "7">>
    ELSE <<"2", "1", "4", "7", "4", "8", "3", "6", "4", "7">>

IntFloor(dia) ==
    IF dia = "rowid"
    THEN <<"9", "2", "2", "3", "3", "7", "2", "0", "3", "6", "8", "5", "4", "7", "7",
           "5", "8", "0", "8">>
    ELSE <<"2", "1", "4", "7", "4", "8", "3", "6", "4", "8">>

IntFits(v, dia) ==
    IF Head(v) = "-" THEN NumLE(Tail(v), IntFloor(dia)) ELSE NumLE(v, IntLimit(dia))

\* The store refuses a statement that binds an integer it cannot hold.
StoreRefuses(data, fields, dia) ==
    \E f \in fields \cap {"age", "jersey_number"} :
        data[f] # None /\ ~IntFits(data[f][1], dia)

\* response_model=schemas.Player: name is a string (schemas.PlayerBase).
ResponseFails(rows) == \E k \in 1..Len(rows) : rows[k].name = None

\* The rows of a query in id order.
RECURSIVE ById(_)
ById(rows) ==
    IF rows = {} THEN <<>>
    ELSE LET first == CHOOSE p \in rows : \A q \in rows : p.id <= q.id
         IN  <<first>> \o ById(rows \ {first})

\* .offset(skip).limit(limit).all(): skip and limit reach the store
\* unvalidated.  A rowid store (SQLite) reads a negative OFFSET as 0 and a
\* negative LIMIT as no limit; a sequence store (PostgreSQL) refuses either
\* and the request ends as an unhandled error.
QueryRejected(skip, limit, dia) == dia = "sequence" /\ (skip < 0 \/ limit < 0)

Page(rowseq, skip, limit) ==
    LET from == IF skip < 0 THEN 0 ELSE skip
        to == IF limit < 0 \/ from + limit > Len(rowseq) THEN Len(rowseq)
              ELSE from + limit
    IN  SubSeq(rowseq, from + 1, to)

DefaultSkip == 0
DefaultLimit == 100

-----------------------------------------------------------------------------
(* CSV Import Pipeline (upload_players_csv).  A document is a filename, the*)
(* header's field names (distinct) and the cells of each following line;   *)
(* a blank line has no cells.                                              *)
NoDoc == [filename |-> <<>>, header |-> <<>>, lines |-> <<>>]

DotCsv == <<".", "c", "s", "v">>

\* key in row, for a row of csv.DictReader
RowHas(header, key) == \E i \in 1..Len(header) : header[i] = key

\* row[key]: the cell under that field name (the last column of that
\* name); csv.DictReader fills the fields a short line lacks with
\* restval = None.
RowGet(header, cells, key) ==
    LET i == CHOOSE j \in 1..Len(header) :
                 /\ header[j] = key
                 /\ \A k \in (j + 1)..Len(header) : header[k] # key
    IN  IF i <= Len(cells) THEN Some(cells[i]) ELSE None

\* row[key].strip() on None raises AttributeError
Raises(header, cells, key) == RowHas(header, key) /\ RowGet(header, cells, key) = None

\* "name" not in row or not row["name"].strip()
NameMissing(header, cells) ==
    \/ ~RowHas(header, "name")
    \/ /\ RowGet(header, cells, "name") # None
       /\ Strip(RowGet(header, cells, "name")[1]) = <<>>

\* if key in row and row[key].strip(): player_data[key] = row[key].strip()
TextField(header, cells, key) ==
    IF RowHas(header, key) /\ RowGet(header, cells, key) # None
       /\ Strip(RowGet(header, cells, key)[1]) # <<>>
    THEN Some(Strip(RowGet(header, cells, key)[1]))
    ELSE None

\* if key in row and row[key].strip(): try int(row[key]) except ValueError: pass
IntField(header, cells, key) ==
    IF RowHas(header, key) /\ RowGet(header, cells, key) # None
       /\ Strip(RowGet(header, cells, key)[1]) # <<>>
    THEN ParseInt(RowGet(header, cells, key)[1])
    ELSE None

player_data(header, cells) ==
    [name |-> TextField(header, cells, "name"),
     position |-> TextField(header, cells, "position"),
     team |-> TextField(header, cells, "team"),
     age |-> IntField(header, cells, "age"),
     jersey_number |-> IntField(header, cells, "jersey_number")]

\* A turn of the loop ends the request (status 400) when the name is
\* missing, when reading one of the five fields raises, or when the store
\* refuses the row: whatever is raised in the turn is caught (lines 260-266).
RowFails(header, cells, dia) ==
    \/ NameMissing(header, cells)
    \/ \E key \in Fields : Raises(header, cells, key)
    \/ StoreRefuses(player_data(header, cells), Fields, dia)

\* for row in csv_reader: csv.DictReader passes over blank lines.  The
\* first line from i on that has cells, Len + 1 when there is none.
RECURSIVE NextLine(_, _)
NextLine(doc, i) ==
    IF i <= Len(doc.lines) /\ doc.lines[i] = <<>> THEN NextLine(doc, i + 1) ELSE i

-----------------------------------------------------------------------------
(* The last step taken: the request, and the response it was given.        *)
NoCred == [email |-> "", username |-> "", password |-> ""]

NoQuery == [name |-> <<>>, skip |-> DefaultSkip, limit |-> DefaultLimit]

NoResp == [op |-> "start", status |-> 0, tok |-> NoToken, pid |-> 0, body |-> NoBody,
           doc |-> NoDoc, cred |-> NoCred, query |-> NoQuery, token |-> NoToken,
           rows |-> <<>>, done |-> <<>>]

\* Security(auth.get_current_active_user): the dependency every
\* authenticated route declares.
AnyUser(tok) == Some([id |-> 0, email |-> "", username |-> tok.sub,
                      hashed_password |-> get_password_hash("", "s1"),
                      is_active |-> TRUE])

current_user(tok) == get_current_active_user(tok, users, now)

Unauthorized(op, tok) ==
    /\ current_user(tok) = None
    /\ resp' = [NoResp EXCEPT !.op = op, !.status = 401, !.tok = tok]
    /\ UNCHANGED <<users, pending, issued, now, players, seq, dialect, input, uploads, calls>>

-----------------------------------------------------------------------------
(* Auth endpoints.                                                         *)

\* signup, lines 85-87: the lookup by username.
UsernameTaken(db, username) == get_user(db, username) # None

\* The requests past their lookup are a bag: two clients may send the same
\* request.
signup_lookup(req) ==
    /\ resp' = [NoResp EXCEPT !.op = "signup_lookup", !.cred = req,
                              !.status = IF UsernameTaken(users, req.username)
                                         THEN 400 ELSE 0]
    /\ IF UsernameTaken(users, req.username)
       THEN UNCHANGED pending
       ELSE /\ BagCardinality(pending) < MaxInflight
            /\ pending' = pending (+) SetToBag({req})
    /\ UNCHANGED <<users, issued, now, players, seq, dialect, input, uploads, calls>>

\* signup, lines 89-98: hash, insert, commit.  A commit the store refuses
\* (unique constraint) surfaces as an unhandled error, status 500.
signup_commit(req, salt) ==
    LET row == [id |-> NextUserId(users), email |-> req.email,
                username |-> req.username,
                hashed_password |-> get_password_hash(req.password, salt),
                is_active |-> TRUE]
    IN  /\ BagIn(req, pending)
        /\ pending' = pending (-) SetToBag({req})
        /\ IF UniqueViolation(users, row)
           THEN /\ UNCHANGED users
                /\ resp' = [NoResp EXCEPT !.op = "signup", !.cred = req, !.status = 500]
           ELSE /\ users' = users \cup {row}
                /\ resp' = [NoResp EXCEPT !.op = "signup", !.cred = req, !.status = 200]
        /\ UNCHANGED <<issued, now, players, seq, dialect, input, uploads, calls>>

\* login, lines 109-112: the token issued for an authenticated user.
LoginTokenNoExpiry(user, t) ==
    create_access_token(user.username, 2 * ACCESS_TOKEN_EXPIRE_MINUTES, t)

LoginTokenById(user, t) ==
    create_access_token(user.email, ACCESS_TOKEN_EXPIRE_MINUTES, t)

LoginToken(user, t) == create_access_token(user.username, ACCESS_TOKEN_EXPIRE_MINUTES, t)

login(cred) ==
    LET user == authenticate_user(users, cred.username, cred.password)
    IN  /\ IF user = None
           THEN /\ resp' = [NoResp EXCEPT !.op = "login", !.cred = cred, !.status = 401]
                /\ UNCHANGED issued
           ELSE /\ \/ LoginToken(user[1], now) \in issued
                   \/ Cardinality(issued) < MaxTokens
                /\ issued' = issued \cup {LoginToken(user[1], now)}
                /\ resp' = [NoResp EXCEPT !.op = "login", !.cred = cred, !.status = 200,
                                          !.token = LoginToken(user[1], now)]
        /\ UNCHANGED <<users, pending, now, players, seq, dialect, input, uploads, calls>>

logout(tok) ==
    \/ Unauthorized("logout", tok)
    \/ /\ current_user(tok) # None
       /\ resp' = [NoResp EXCEPT !.op = "logout", !.tok = tok, !.status = 200]
       /\ UNCHANGED <<users, pending, issued, now, players, seq, dialect, input, uploads, calls>>

\* Time passes.
Tick(d) ==
    /\ now + d <= MaxTime
    /\ now' = now + d
    /\ resp' = [NoResp EXCEPT !.op = "tick"]
    /\ UNCHANGED <<users, pending, issued, players, seq, dialect, input, uploads, calls>>

-----------------------------------------------------------------------------
(* Player endpoints.  Each route but the upload starts with its signature: *)
(* the token is verified and the request validated, and the handler is     *)
(* handed to a worker thread.  What the handler does comes later, one      *)
(* store call at a time; the clock and other requests come in between.  A  *)
(* request that is past its signature is a record in calls.  Status 0 is a *)
(* request that has not answered yet.                                      *)
Larger(a, b) == IF a > b THEN a ELSE b

Call(op, stage, pid, body, changed, query) ==
    [op |-> op, stage |-> stage, pid |-> pid, body |-> body, changed |-> changed,
     query |-> query]

\* The dependencies are solved and the handler is about to start.
Handed(name, tok, c) ==
    /\ BagCardinality(calls) < MaxCalls
    /\ calls' = calls (+) SetToBag({c})
    /\ resp' = [NoResp EXCEPT !.op = name, !.tok = tok, !.pid = c.pid,
                              !.body = c.body, !.query = c.query]

\* Lines 124-128: the token, then the body (PlayerCreate).
create_player(tok, body) ==
    \/ Unauthorized("create_player", tok)
    \/ /\ current_user(tok) # None
       /\ IF ~PlayerCreateValid(body)
          THEN /\ resp' = [NoResp EXCEPT !.op = "create_player", !.tok = tok,
                                         !.body = body, !.status = 422]
               /\ UNCHANGED calls
          ELSE Handed("create_player", tok,
                      Call("create", "admitted", 0, body, {}, NoQuery))
       /\ UNCHANGED <<users, pending, issued, now, players, seq, dialect, input, uploads>>

\* Lines 129-131: the row is inserted and committed.  An integer the store
\* cannot hold is an unhandled error, and nothing is inserted.
create_commit(c) ==
    /\ BagIn(c, calls)
    /\ c.op = "create" /\ c.stage = "admitted"
    /\ IF StoreRefuses(PlayerDict(c.body), Fields, dialect)
       THEN /\ calls' = calls (-) SetToBag({c})
            /\ resp' = [NoResp EXCEPT !.op = "create_commit", !.body = c.body,
                                      !.status = 500]
            /\ UNCHANGED <<players, seq>>
       ELSE LET id == NewPlayerId(players, seq, dialect)
                row == NewPlayerRow(id, PlayerDict(c.body))
            IN  /\ id <= MaxId
                /\ players' = players \cup {row}
                /\ seq' = Larger(seq, id)
                /\ calls' = (calls (-) SetToBag({c}))
                            (+) SetToBag({Call("create", "committed", id, NoBody, {},
                                               NoQuery)})
                /\ resp' = [NoResp EXCEPT !.op = "create_commit", !.body = c.body,
                                          !.pid = id, !.rows = <<row>>]
    /\ UNCHANGED <<users, pending, issued, now, dialect, input, uploads>>

\* Lines 132-133: db.refresh reads the row again, and the response is built
\* from what it finds.  A row that is gone cannot be refreshed, and a row
\* that does not pass the response model cannot be returned: either is an
\* unhandled error.
create_return(c) ==
    LET cur == get_player(players, c.pid)
        failed == cur = None \/ ResponseFails(cur)
    IN  /\ BagIn(c, calls)
        /\ c.op = "create" /\ c.stage = "committed"
        /\ calls' = calls (-) SetToBag({c})
        /\ resp' = [NoResp EXCEPT !.op = "create_return", !.pid = c.pid,
                                  !.status = IF failed THEN 500 ELSE 200,
                                  !.rows = IF failed THEN <<>> ELSE cur]
        /\ UNCHANGED <<users, pending, issued, now, players, seq, dialect, input, uploads>>

\* Lines 136-141: the token.
read_players(tok, skip, limit) ==
    \/ Unauthorized("read_players", tok)
    \/ /\ current_user(tok) # None
       /\ Handed("read_players", tok,
                 Call("read_players", "admitted", 0, NoBody, {},
                      [name |-> <<>>, skip |-> skip, limit |-> limit]))
       /\ UNCHANGED <<users, pending, issued, now, players, seq, dialect, input, uploads>>

\* Lines 142-143: the page is read and returned.
read_players_return(c) ==
    LET found == Page(ById(players), c.query.skip, c.query.limit)
        failed == QueryRejected(c.query.skip, c.query.limit, dialect)
                  \/ ResponseFails(found)
    IN  /\ BagIn(c, calls)
        /\ c.op = "read_players"
        /\ calls' = calls (-) SetToBag({c})
        /\ resp' = [NoResp EXCEPT !.op = "read_players_return", !.query = c.query,
                                  !.status = IF failed THEN 500 ELSE 200,
                                  !.rows = IF failed THEN <<>> ELSE found]
        /\ UNCHANGED <<users, pending, issued, now, players, seq, dialect, input, uploads>>

\* Lines 146-150: the token.
read_player(tok, pid) ==
    \/ Unauthorized("read_player", tok)
    \/ /\ current_user(tok) # None
       /\ Handed("read_player", tok,
                 Call("read_player", "admitted", pid, NoBody, {}, NoQuery))
       /\ UNCHANGED <<users, pending, issued, now, players, seq, dialect, input, uploads>>

\* Lines 151-154: the row is read and returned.
read_player_return(c) ==
    LET found == get_player(players, c.pid)
    IN  /\ BagIn(c, calls)
        /\ c.op = "read_player"
        /\ calls' = calls (-) SetToBag({c})
        /\ resp' = [NoResp EXCEPT !.op = "read_player_return", !.pid = c.pid,
                                  !.status = IF found = None THEN 404
                                             ELSE IF ResponseFails(found) THEN 500
                                             ELSE 200,
                                  !.rows = IF ResponseFails(found) THEN <<>>
                                           ELSE found]
        /\ UNCHANGED <<users, pending, issued, now, players, seq, dialect, input, uploads>>

\* Lines 157-162: the token.  PlayerUpdate accepts every body.
update_player(tok, pid, body) ==
    \/ Unauthorized("update_player", tok)
    \/ /\ current_user(tok) # None
       /\ Handed("update_player", tok,
                 Call("update", "admitted", pid, body, {}, NoQuery))
       /\ UNCHANGED <<users, pending, issued, now, players, seq, dialect, input, uploads>>

\* Lines 163-168: the row is read and the supplied fields are set on the
\* loaded object.  The session remembers the fields whose value changed.
update_read(c) ==
    LET cur == get_player(players, c.pid)
    IN  /\ BagIn(c, calls)
        /\ c.op = "update" /\ c.stage = "admitted"
        /\ IF cur = None
           THEN /\ calls' = calls (-) SetToBag({c})
                /\ resp' = [NoResp EXCEPT !.op = "update_read", !.pid = c.pid,
                                          !.body = c.body, !.status = 404]
           ELSE /\ calls' = (calls (-) SetToBag({c}))
                            (+) SetToBag({[c EXCEPT !.stage = "read",
                                                    !.changed = Changed(cur[1], c.body)]})
                /\ resp' = [NoResp EXCEPT !.op = "update_read", !.pid = c.pid,
                                          !.body = c.body, !.rows = cur]
        /\ UNCHANGED <<users, pending, issued, now, players, seq, dialect, input, uploads>>

\* Line 170: db.commit() writes the changed fields to the row of that id.
\* With no changed field it writes nothing.  An integer the store cannot
\* hold, or a row that is no longer there, is an unhandled error.
update_commit(c) ==
    LET cur == get_player(players, c.pid)
        failed == c.changed # {} /\ (StoreRefuses(c.body.val, c.changed, dialect)
                                      \/ cur = None)
    IN  /\ BagIn(c, calls)
        /\ c.op = "update" /\ c.stage = "read"
        /\ IF failed
           THEN /\ calls' = calls (-) SetToBag({c})
                /\ resp' = [NoResp EXCEPT !.op = "update_commit", !.pid = c.pid,
                                          !.body = c.body, !.status = 500]
                /\ UNCHANGED players
           ELSE /\ calls' = (calls (-) SetToBag({c}))
                            (+) SetToBag({[c EXCEPT !.stage = "committed"]})
                /\ resp' = [NoResp EXCEPT !.op = "update_commit", !.pid = c.pid,
                                          !.body = c.body]
                /\ players' = IF c.changed = {} THEN players
                              ELSE (players \ {cur[1]})
                                   \cup {Written(cur[1], c.body, c.changed)}
        /\ UNCHANGED <<users, pending, issued, now, seq, dialect, input, uploads>>

\* Lines 171-172: db.refresh and the response, as in create_player.
update_return(c) ==
    LET cur == get_player(players, c.pid)
        failed == cur = None \/ ResponseFails(cur)
    IN  /\ BagIn(c, calls)
        /\ c.op = "update" /\ c.stage = "committed"
        /\ calls' = calls (-) SetToBag({c})
        /\ resp' = [NoResp EXCEPT !.op = "update_return", !.pid = c.pid,
                                  !.body = c.body,
                                  !.status = IF failed THEN 500 ELSE 200,
                                  !.rows = IF failed THEN <<>> ELSE cur]
        /\ UNCHANGED <<users, pending, issued, now, players, seq, dialect, input, uploads>>

\* Lines 175-179: the token.
delete_player(tok, pid) ==
    \/ Unauthorized("delete_player", tok)
    \/ /\ current_user(tok) # None
       /\ Handed("delete_player", tok,
                 Call("delete", "admitted", pid, NoBody, {}, NoQuery))
       /\ UNCHANGED <<users, pending, issued, now, players, seq, dialect, input, uploads>>

\* Lines 180-182: the row is read.
delete_read(c) ==
    /\ BagIn(c, calls)
    /\ c.op = "delete" /\ c.stage = "admitted"
    /\ IF get_player(players, c.pid) = None
       THEN /\ calls' = calls (-) SetToBag({c})
            /\ resp' = [NoResp EXCEPT !.op = "delete_read", !.pid = c.pid,
                                      !.status = 404]
       ELSE /\ calls' = (calls (-) SetToBag({c}))
                        (+) SetToBag({[c EXCEPT !.stage = "read"]})
            /\ resp' = [NoResp EXCEPT !.op = "delete_read", !.pid = c.pid,
                                      !.rows = get_player(players, c.pid)]
    /\ UNCHANGED <<users, pending, issued, now, players, seq, dialect, input, uploads>>

\* db.delete(player); db.commit(): the row of that id is deleted.
KeepRow(db, id) == db

DeleteRow(db, id) == {p \in db : p.id # id}

\* Lines 184-186.  A row that is already gone is no error.
delete_return(c) ==
    /\ BagIn(c, calls)
    /\ c.op = "delete" /\ c.stage = "read"
    /\ calls' = calls (-) SetToBag({c})
    /\ players' = DeleteRow(players, c.pid)
    /\ resp' = [NoResp EXCEPT !.op = "delete_return", !.pid = c.pid, !.status = 200]
    /\ UNCHANGED <<users, pending, issued, now, seq, dialect, input, uploads>>

\* Lines 190-196: the token.
search_players_by_name(tok, name, skip, limit) ==
    \/ Unauthorized("search_players_by_name", tok)
    \/ /\ current_user(tok) # None
       /\ Handed("search_players_by_name", tok,
                 Call("search", "admitted", 0, NoBody, {},
                      [name |-> name, skip |-> skip, limit |-> limit]))
       /\ UNCHANGED <<users, pending, issued, now, players, seq, dialect, input, uploads>>

\* Lines 197-200: the matching page is read; an empty one is answered 404.
search_players_return(c) ==
    LET found == Page(ById({p \in players : ILike(p.name, c.query.name, dialect)}),
                      c.query.skip, c.query.limit)
        rejected == QueryRejected(c.query.skip, c.query.limit, dialect)
    IN  /\ BagIn(c, calls)
        /\ c.op = "search"
        /\ calls' = calls (-) SetToBag({c})
        /\ resp' = [NoResp EXCEPT !.op = "search_players_return", !.query = c.query,
                                  !.status = IF rejected THEN 500
                                             ELSE IF found = <<>> THEN 404 ELSE 200,
                                  !.rows = IF rejected THEN <<>> ELSE found]
        /\ UNCHANGED <<users, pending, issued, now, players, seq, dialect, input, uploads>>

\* upload_players_csv takes no token.  Lines 209-220: the filename test,
\* then the file is read and the loop is about to start.
upload_players_csv(doc) ==
    /\ IF ~EndsWith(doc.filename, DotCsv)
       THEN /\ resp' = [NoResp EXCEPT !.op = "upload_players_csv", !.doc = doc,
                                      !.status = 400]
            /\ UNCHANGED uploads
       ELSE /\ BagCardinality(uploads) < MaxUploads
            /\ uploads' = uploads (+) SetToBag({[doc |-> doc, i |-> 1, fresh |-> 0,
                                                 created |-> <<>>, held |-> {},
                                                 read |-> <<>>]})
            /\ resp' = [NoResp EXCEPT !.op = "upload_players_csv", !.doc = doc]
    /\ UNCHANGED <<users, pending, issued, now, players, seq, dialect, input, calls>>

\* The flush of a new row whose id the session already holds (the store
\* gave the id of a deleted row again) puts the new object in the place of
\* the old one in the session, and the commit that follows expires only
\* the objects the session holds.  The object of the row before, loaded by
\* its refresh, is then never expired: it keeps what the refresh read.
\* Objects of earlier rows were expired by an earlier commit already.
Replaced(u, id) ==
    IF u.created # <<>> /\ u.created[Len(u.created)].id = id
    THEN u.held \cup {Len(u.created)} ELSE u.held

\* Lines 223-256: one turn of the loop up to its commit.  The row is
\* committed on its own, so other requests see it, and act, from here on.
\* A row that raises, in the program or in the store, ends the request with
\* status 400; what was committed before it stays.
upload_row(u) ==
    LET doc == u.doc
        j == NextLine(doc, u.i)
    IN  /\ BagIn(u, uploads)
        /\ u.fresh = 0
        /\ j <= Len(doc.lines)
        /\ IF RowFails(doc.header, doc.lines[j], dialect)
           THEN /\ uploads' = uploads (-) SetToBag({u})
                /\ resp' = [NoResp EXCEPT !.op = "upload_row", !.doc = doc,
                                          !.status = 400, !.done = u.created]
                /\ UNCHANGED <<players, seq>>
           ELSE LET id == NewPlayerId(players, seq, dialect)
                    row == NewPlayerRow(id, player_data(doc.header, doc.lines[j]))
                IN  /\ id <= MaxId
                    /\ players' = players \cup {row}
                    /\ seq' = Larger(seq, id)
                    /\ uploads' = (uploads (-) SetToBag({u}))
                                  (+) SetToBag({[u EXCEPT !.i = j + 1, !.fresh = id,
                                                         !.held = Replaced(u, id)]})
                    /\ resp' = [NoResp EXCEPT !.op = "upload_row", !.doc = doc,
                                              !.pid = id, !.rows = <<row>>,
                                              !.done = u.created]
        /\ UNCHANGED <<users, pending, issued, now, dialect, input, calls>>

\* Lines 257-258: db.refresh reads the committed row again and the row is
\* added to the created ones.  A row that is gone cannot be refreshed: the
\* turn raises and the request ends with status 400.
upload_refresh(u) ==
    LET cur == get_player(players, u.fresh)
    IN  /\ BagIn(u, uploads)
        /\ u.fresh # 0
        /\ IF cur = None
           THEN /\ uploads' = uploads (-) SetToBag({u})
                /\ resp' = [NoResp EXCEPT !.op = "upload_refresh", !.doc = u.doc,
                                          !.pid = u.fresh, !.status = 400,
                                          !.done = u.created]
           ELSE /\ uploads' = (uploads (-) SetToBag({u}))
                              (+) SetToBag({[u EXCEPT !.fresh = 0,
                                                     !.created = Append(@, cur[1])]})
                /\ resp' = [NoResp EXCEPT !.op = "upload_refresh", !.doc = u.doc,
                                          !.pid = u.fresh, !.rows = cur,
                                          !.done = Append(u.created, cur[1])]
        /\ UNCHANGED <<users, pending, issued, now, players, seq, dialect, input, calls>>

\* The rows of the response that need no read: the next created rows, up
\* to the last but one, whose objects were never expired.
RECURSIVE Kept(_, _)
Kept(u, read) ==
    LET k == Len(read) + 1
    IN  IF k < Len(u.created) /\ k \in u.held
        THEN Kept(u, Append(read, u.created[k])) ELSE read

\* Line 268: the loop is over and the created rows are returned.  Each
\* commit expired the objects the session held, so all but the row
\* refreshed last, and those that were never expired, are read again from
\* the store by id, one at a time, as the response is built; other requests
\* act between two reads.  A row that is gone cannot be read again, and a
\* row that does not pass the response model cannot be returned: the
\* response fails as an unhandled error.
upload_return(u) ==
    LET sofar == Kept(u, u.read)
        k == Len(sofar) + 1
        cur == get_player(players, u.created[k].id)
        found == IF u.created = <<>> THEN <<>>
                 ELSE Append(sofar, u.created[Len(u.created)])
    IN  /\ BagIn(u, uploads)
        /\ u.fresh = 0
        /\ NextLine(u.doc, u.i) > Len(u.doc.lines)
        /\ IF k < Len(u.created)
           THEN IF cur = None
                THEN /\ uploads' = uploads (-) SetToBag({u})
                     /\ resp' = [NoResp EXCEPT !.op = "upload_return", !.doc = u.doc,
                                               !.pid = u.created[k].id, !.status = 500,
                                               !.done = u.created]
                ELSE /\ uploads' = (uploads (-) SetToBag({u}))
                                   (+) SetToBag({[u EXCEPT !.read = Append(sofar, cur[1])]})
                     /\ resp' = [NoResp EXCEPT !.op = "upload_return", !.doc = u.doc,
                                               !.pid = u.created[k].id, !.rows = cur,
                                               !.done = u.created]
           ELSE /\ uploads' = uploads (-) SetToBag({u})
                /\ resp' = [NoResp EXCEPT !.op = "upload_return", !.doc = u.doc,
                                          !.status = IF ResponseFails(found) THEN 500
                                                     ELSE 200,
                                          !.rows = IF ResponseFails(found) THEN <<>>
                                                   ELSE found,
                                          !.done = u.created]
        /\ UNCHANGED <<users, pending, issued, now, players, seq, dialect, input, calls>>

-----------------------------------------------------------------------------
(* The requests explored.                                                  *)

\* A deactivated account and a token, signed with the process key, whose
\* subject has no row: what a store edited outside this API can hold.
Zed == [id |-> 1, email |-> "z@x", username |-> "zed",
        hashed_password |-> get_password_hash("p1", "s1"), is_active |-> FALSE]

Orphan == create_access_token("eve", ACCESS_TOKEN_EXPIRE_MINUTES, 0)

Forged == [kind |-> "jwt", sub |-> "ann", exp |-> MaxTime + ACCESS_TOKEN_EXPIRE_MINUTES,
           key |-> "attacker"]

\* What a client can put in the Authorization header.
Presented == issued \cup {NoToken, Garbage, Forged}

Ids == 1..MaxId

Body(set, name, position, team, age, jersey_number) ==
    [set |-> set, val |-> [name |-> name, position |-> position, team |-> team,
                           age |-> age, jersey_number |-> jersey_number]]

Doc(filename, header, lines) == [filename |-> filename, header |-> header, lines |-> lines]

CsvName == <<"p", ".", "c", "s", "v">>
TxtName == <<"p", ".", "t", "x", "t">>

Quarter == ACCESS_TOKEN_EXPIRE_MINUTES \div 2

-----------------------------------------------------------------------------
(* Spec: the account endpoints and the clock, from the empty store that    *)
(* create_all leaves.  Every account is one that signup created.           *)
SignupReqs ==
    {[email |-> "a@x", username |-> "ann", password |-> "p1"],
     [email |-> "b@x", username |-> "ann", password |-> "p2"],
     [email |-> "a@x", username |-> "eve", password |-> "p1"]}

Creds == [email : {""}, username : {"ann", "eve"}, password : {"p1", "p2"}]

Init ==
    /\ users = {}
    /\ pending = EmptyBag
    /\ issued = {}
    /\ now = 0
    /\ players = {}
    /\ seq = 0
    /\ dialect = "sequence"
    /\ input = [body |-> NoBody, doc |-> NoDoc]
    /\ uploads = EmptyBag
    /\ calls = EmptyBag
    /\ resp = NoResp

Next ==
    \/ \E req \in SignupReqs : signup_lookup(req)
    \/ \E req \in BagToSet(pending), salt \in Salts : signup_commit(req, salt)
    \/ \E cred \in Creds : login(cred)
    \/ \E tok \in Presented : logout(tok)
    \/ Tick(Quarter)

Spec == Init /\ [][Next]_vars

-----------------------------------------------------------------------------
(* SpecApi: every endpoint that asks for a token, called with good and bad *)
(* tokens, beside logins and the clock, from a store in which ann has      *)
(* signed up.                                                              *)
Ann == [id |-> 2, email |-> "a@x", username |-> "ann",
        hashed_password |-> get_password_hash("p1", "s2"), is_active |-> TRUE]

ApiCreds == {[email |-> "", username |-> "ann", password |-> "p1"],
             [email |-> "", username |-> "ann", password |-> "p2"],
             [email |-> "", username |-> "zed", password |-> "p1"]}

\* A body without a name: PlayerCreate refuses it.
Nameless == Body({"team"}, None, None, Some(<<"X">>), None, None)

\* An age that neither kind of store holds.
TooLarge == [k \in 1..19 |-> "9"]

ApiCreate == {Body({"name", "team"}, Some(<<"A">>), None, Some(<<"X">>), None, None),
              Nameless}

ApiUpdate == {Body({"team", "age"}, None, None, Some(<<"Y">>), Some(<<"7">>), None)}

InitApi ==
    /\ users = {Zed, Ann}
    /\ pending = EmptyBag
    /\ issued = {Orphan}
    /\ now = 0
    /\ players = {}
    /\ seq = 0
    /\ dialect = "sequence"
    /\ input = [body |-> NoBody, doc |-> NoDoc]
    /\ uploads = EmptyBag
    /\ calls = EmptyBag
    /\ resp = NoResp

NextApi ==
    \/ \E cred \in ApiCreds : login(cred)
    \/ \E tok \in Presented : logout(tok)
    \/ Tick(ACCESS_TOKEN_EXPIRE_MINUTES)
    \/ \E tok \in Presented, body \in ApiCreate : create_player(tok, body)
    \/ \E c \in BagToSet(calls) : create_commit(c)
    \/ \E c \in BagToSet(calls) : create_return(c)
    \/ \E tok \in Presented : read_players(tok, DefaultSkip, DefaultLimit)
    \/ \E c \in BagToSet(calls) : read_players_return(c)
    \/ \E tok \in Presented, pid \in Ids : read_player(tok, pid)
    \/ \E c \in BagToSet(calls) : read_player_return(c)
    \/ \E tok \in Presented, pid \in Ids, body \in ApiUpdate :
          update_player(tok, pid, body)
    \/ \E c \in BagToSet(calls) : update_read(c)
    \/ \E c \in BagToSet(calls) : update_commit(c)
    \/ \E c \in BagToSet(calls) : update_return(c)
    \/ \E tok \in Presented, pid \in Ids : delete_player(tok, pid)
    \/ \E c \in BagToSet(calls) : delete_read(c)
    \/ \E c \in BagToSet(calls) : delete_return(c)
    \/ \E tok \in Presented :
          search_players_by_name(tok, <<"a">>, DefaultSkip, DefaultLimit)
    \/ \E c \in BagToSet(calls) : search_players_return(c)

SpecApi == InitApi /\ [][NextApi]_vars

-----------------------------------------------------------------------------
(* SpecPlayers: what puts players in the store and what reads them, with a *)
(* valid token, on either kind of store.  Each behaviour fixes one request *)
(* body (input.body) for its create and update requests.                   *)
AnnToken == create_access_token("ann", ACCESS_TOKEN_EXPIRE_MINUTES, 0)

FullBody == Body(Fields, Some(<<"B">>), Some(<<"G">>), Some(<<"Y">>),
                 Some(<<"3", "0">>), Some(<<"9">>))

\* An empty name, a whitespace-only name, a null name beside an age, and an
\* age that the store cannot hold.
Bodies ==
    {Body({"name"}, Some(<<>>), None, None, None, None),
     Body({"name"}, Some(<<" ">>), None, None, None, None),
     Body({"name", "age"}, None, None, None, Some(<<"7">>), None),
     Body({"name", "age"}, Some(<<"A">>), None, None, Some(TooLarge), None)}

PlayersDocs == {Doc(fname, <<"name", "age">>, << <<<<"a">>, <<"-", "7">>>> >>) :
                   fname \in {CsvName, TxtName}}

\* A page size, and the negative one that the handler lets through.
Limits == {DefaultLimit, 0 - 1}

\* A name in the other case, a wildcard, and a name nobody has.
Searches == {<<"a">>, <<"_">>, <<"a", "_", "z">>}

InitPlayers ==
    /\ users = {Zed, Ann}
    /\ pending = EmptyBag
    /\ issued = {AnnToken}
    /\ now = 0
    /\ players = {}
    /\ seq = 0
    /\ dialect \in Dialects
    /\ input \in [body : Bodies, doc : {NoDoc}]
    /\ uploads = EmptyBag
    /\ calls = EmptyBag
    /\ resp = NoResp

NextPlayers ==
    \/ \E tok \in issued, body \in {input.body, FullBody} : create_player(tok, body)
    \/ \E c \in BagToSet(calls) : create_commit(c)
    \/ \E c \in BagToSet(calls) : create_return(c)
    \/ \E tok \in issued, limit \in Limits : read_players(tok, DefaultSkip, limit)
    \/ \E c \in BagToSet(calls) : read_players_return(c)
    \/ \E tok \in issued, pid \in Ids : read_player(tok, pid)
    \/ \E c \in BagToSet(calls) : read_player_return(c)
    \/ \E tok \in issued, pid \in Ids : update_player(tok, pid, input.body)
    \/ \E c \in BagToSet(calls) : update_read(c)
    \/ \E c \in BagToSet(calls) : update_commit(c)
    \/ \E c \in BagToSet(calls) : update_return(c)
    \/ \E tok \in issued, name \in Searches :
          search_players_by_name(tok, name, DefaultSkip, DefaultLimit)
    \/ \E c \in BagToSet(calls) : search_players_return(c)
    \/ \E doc \in PlayersDocs : upload_players_csv(doc)
    \/ \E u \in BagToSet(uploads) : upload_row(u)
    \/ \E u \in BagToSet(uploads) : upload_refresh(u)
    \/ \E u \in BagToSet(uploads) : upload_return(u)

SpecPlayers == InitPlayers /\ [][NextPlayers]_vars

-----------------------------------------------------------------------------
(* SpecUpdate: updates that set a team, an age, or both, of a player that  *)
(* create_player put in the store, beside deletes and other updates.       *)
UpdateBodies ==
    {Body({"team"}, None, None, Some(<<"Y">>), None, None),
     Body({"team"}, None, None, Some(<<"X">>), None, None),
     Body({"age"}, None, None, None, Some(<<"7">>), None),
     Body({"team", "age"}, None, None, Some(<<"X">>), None, None)}

InitUpdate ==
    /\ users = {Zed, Ann}
    /\ pending = EmptyBag
    /\ issued = {AnnToken}
    /\ now = 0
    /\ players = {}
    /\ seq = 0
    /\ dialect = "rowid"
    /\ input = [body |-> NoBody, doc |-> NoDoc]
    /\ uploads = EmptyBag
    /\ calls = EmptyBag
    /\ resp = NoResp

NextUpdate ==
    \/ \E tok \in issued, body \in {FullBody, Nameless} : create_player(tok, body)
    \/ \E c \in BagToSet(calls) : create_commit(c)
    \/ \E c \in BagToSet(calls) : create_return(c)
    \/ \E tok \in issued, pid \in Ids, body \in UpdateBodies :
          update_player(tok, pid, body)
    \/ \E c \in BagToSet(calls) : update_read(c)
    \/ \E c \in BagToSet(calls) : update_commit(c)
    \/ \E c \in BagToSet(calls) : update_return(c)
    \/ \E tok \in issued, pid \in Ids : delete_player(tok, pid)
    \/ \E c \in BagToSet(calls) : delete_read(c)
    \/ \E c \in BagToSet(calls) : delete_return(c)

SpecUpdate == InitUpdate /\ [][NextUpdate]_vars

-----------------------------------------------------------------------------
(* SpecIds: the life of an id.  Creates, reads, updates, deletes and       *)
(* uploads, on either kind of store.                                       *)
IdsUpdate == Body({"name"}, Some(<<"A">>), None, None, None, None)

IdsDocs == {Doc(CsvName, <<"name">>, << <<<<"a">>>>, <<<<"b">>>> >>)}

InitIds ==
    /\ users = {Zed, Ann}
    /\ pending = EmptyBag
    /\ issued = {AnnToken}
    /\ now = 0
    /\ players = {}
    /\ seq = 0
    /\ dialect \in Dialects
    /\ input = [body |-> IdsUpdate, doc |-> NoDoc]
    /\ uploads = EmptyBag
    /\ calls = EmptyBag
    /\ resp = NoResp

NextIds ==
    \/ \E tok \in issued : create_player(tok, FullBody)
    \/ \E c \in BagToSet(calls) : create_commit(c)
    \/ \E c \in BagToSet(calls) : create_return(c)
    \/ \E tok \in issued, pid \in Ids : read_player(tok, pid)
    \/ \E c \in BagToSet(calls) : read_player_return(c)
    \/ \E tok \in issued, pid \in Ids : update_player(tok, pid, input.body)
    \/ \E c \in BagToSet(calls) : update_read(c)
    \/ \E c \in BagToSet(calls) : update_commit(c)
    \/ \E c \in BagToSet(calls) : update_return(c)
    \/ \E tok \in issued, pid \in Ids : delete_player(tok, pid)
    \/ \E c \in BagToSet(calls) : delete_read(c)
    \/ \E c \in BagToSet(calls) : delete_return(c)
    \/ \E doc \in IdsDocs : upload_players_csv(doc)
    \/ \E u \in BagToSet(uploads) : upload_row(u)
    \/ \E u \in BagToSet(uploads) : upload_refresh(u)
    \/ \E u \in BagToSet(uploads) : upload_return(u)

SpecIds == InitIds /\ [][NextIds]_vars

-----------------------------------------------------------------------------
(* SpecCsv: imports of one document (input.doc) beside a reader, over      *)
(* every document of at most MaxRows lines under the headers below.        *)
Cells == {<<>>, <<"\t">>, <<"A">>, <<" ", "-", "7">>, TooLarge}

Headers == {<<"name", "age">>, <<"position", "name">>, <<"name", "team">>,
            <<"name", "jersey_number">>, <<"age">>}

\* The lines a header admits: blank, short, full, or with one cell more.
Lines(header) ==
    UNION {[1..n -> Cells] : n \in 0..Len(header)}
    \cup {Append(l, <<"A">>) : l \in [1..Len(header) -> Cells]}

\* The sequences of at most n lines.
RECURSIVE LineSeqs(_, _)
LineSeqs(header, n) ==
    IF n = 0 THEN {<<>>}
    ELSE LET shorter == LineSeqs(header, n - 1)
         IN  shorter \cup {Append(ls, l) : ls \in shorter, l \in Lines(header)}

\* Every document of at most n lines under the headers above, and every
\* document of one line under a header of three fields.
Docs(n) ==
    UNION {{Doc(CsvName, h, ls) : ls \in LineSeqs(h, n)} : h \in Headers}
    \cup {Doc(CsvName, <<"name", "age", "team">>, <<l>>) :
             l \in Lines(<<"name", "age", "team">>)}
    \cup {Doc(TxtName, <<"name">>, << <<<<"A">>>> >>), Doc(CsvName, <<>>, <<>>)}

InitCsv ==
    /\ users = {Zed, Ann}
    /\ pending = EmptyBag
    /\ issued = {AnnToken}
    /\ now = 0
    /\ players = {}
    /\ seq = 0
    /\ dialect = "rowid"
    /\ input \in [body : {NoBody}, doc : Docs(MaxRows)]
    /\ uploads = EmptyBag
    /\ calls = EmptyBag
    /\ resp = NoResp

NextCsv ==
    \/ upload_players_csv(input.doc)
    \/ \E u \in BagToSet(uploads) : upload_row(u)
    \/ \E u \in BagToSet(uploads) : upload_refresh(u)
    \/ \E u \in BagToSet(uploads) : upload_return(u)
    \/ \E tok \in issued, pid \in Ids : read_player(tok, pid)
    \/ \E c \in BagToSet(calls) : read_player_return(c)

SpecCsv == InitCsv /\ [][NextCsv]_vars

-----------------------------------------------------------------------------
(* What the claims about the import speak of.                              *)

\* The data rows of a document: its lines that are not blank.
DataRows(doc) == SelectSeq(doc.lines, LAMBDA l : l # <<>>)

\* The row's name is absent, empty or whitespace-only.
NameBlank(header, cells) ==
    \/ ~RowHas(header, "name")
    \/ RowGet(header, cells, "name") = None
    \/ Strip(RowGet(header, cells, "name")[1]) = <<>>

\* The index of the first data row with a blank name, 0 when there is none.
FirstBlank(doc) ==
    LET D == DataRows(doc)
        B == {k \in 1..Len(D) : NameBlank(doc.header, D[k])}
    IN  IF B = {} THEN 0 ELSE CHOOSE k \in B : \A j \in B : k <= j

\* The row has a value under key that is not an integer.
BadInt(header, cells, key) ==
    /\ RowHas(header, key)
    /\ RowGet(header, cells, key) # None
    /\ Strip(RowGet(header, cells, key)[1]) # <<>>
    /\ ParseInt(RowGet(header, cells, key)[1]) = None

\* The step that ends an upload of a file named *.csv; resp'.done holds the
\* rows the upload committed and read back, in row order.
CsvUploadStep ==
    /\ resp'.op \in {"upload_row", "upload_refresh", "upload_return"}
    /\ resp'.status # 0
    /\ EndsWith(resp'.doc.filename, DotCsv)

Inserted == resp'.done

NameOf(header, cells) == Some(Strip(RowGet(header, cells, "name")[1]))

\* C7: when the k-th data row is the first with a blank name, the upload
\* answers 400, the players of rows 1..k-1 (and no others) have been
\* inserted and stay in the store, and nothing is inserted for row k or later.
C7_AbortKeepsPrefix ==
    [][CsvUploadStep /\ FirstBlank(resp'.doc) > 0 =>
         LET doc == resp'.doc
             D == DataRows(doc)
             k == FirstBlank(doc)
         IN  /\ resp'.status = 400
             /\ players' = players
             /\ Len(Inserted) = k - 1
             /\ \A i \in 1..(k - 1) :
                   /\ Inserted[i].name = NameOf(doc.header, D[i])
                   /\ Inserted[i] \in players']_vars

\* C8: a row that is reached, has a name and carries a malformed age or
\* jersey_number is inserted with that field unset, and the row after it is
\* processed as well.
C8_BadIntegerSkipped ==
    [][CsvUploadStep =>
         LET doc == resp'.doc
             D == DataRows(doc)
         IN  \A j \in 1..Len(D) :
               /\ \A i \in 1..j : ~NameBlank(doc.header, D[i])
               /\ BadInt(doc.header, D[j], "age") \/ BadInt(doc.header, D[j], "jersey_number")
               => /\ Len(Inserted) >= j
                  /\ Inserted[j].name = NameOf(doc.header, D[j])
                  /\ BadInt(doc.header, D[j], "age") => Inserted[j].age = None
                  /\ BadInt(doc.header, D[j], "jersey_number")
                        => Inserted[j].jersey_number = None
                  /\ (j < Len(D) /\ ~NameBlank(doc.header, D[j + 1]))
                        => Len(Inserted) >= j + 1]_vars

\* C10: an upload of a *.csv file in which every data row has a name
\* succeeds, inserts one player per data row and returns them in row order.
C10_OnlyBlankNameFails ==
    [][CsvUploadStep /\ FirstBlank(resp'.doc) = 0 =>
         LET doc == resp'.doc
             D == DataRows(doc)
         IN  /\ resp'.status = 200
             /\ Len(Inserted) = Len(D)
             /\ resp'.rows = Inserted
             /\ \A i \in 1..Len(D) : Inserted[i].name = NameOf(doc.header, D[i])]_vars

-----------------------------------------------------------------------------
(* What the claims about the player endpoints speak of.                    *)
PlayerIds(db) == {p.id : p \in db}

\* C5: every stored player's name is a string that is neither empty nor
\* whitespace-only.
C5_NamesNeverBlank ==
    \A p \in players : p.name # None /\ Strip(p.name[1]) # <<>>

\* C6: an authorized update_player that finds no player of its id in the
\* store answers 404 and changes nothing; one that finds the player goes
\* on to its commit, and the commit overwrites, in the player of that id,
\* exactly the supplied fields with the supplied values and keeps the
\* unsupplied fields, the id and every other player.
C6_UpdateFrame ==
    [][/\ resp'.op = "update_read"
          => /\ players' = players
             /\ IF resp'.pid \in PlayerIds(players)
                THEN resp'.status = 0 /\ BagCardinality(calls') = BagCardinality(calls)
                ELSE resp'.status = 404 /\ BagCardinality(calls') < BagCardinality(calls)
       /\ resp'.op = "update_commit"
          => /\ resp'.status = 0
             /\ \E old \in players :
                   /\ old.id = resp'.pid
                   /\ players' = (players \ {old}) \cup {SetAttrs(old, resp'.body)}]_vars

\* An authorized delete_player answers 404 exactly for an id not in the
\* store and changes nothing before its delete; the delete answers 200 and
\* removes the player of that id and no other.
DeleteEffect ==
    /\ resp'.op = "delete_read"
          => /\ resp'.status = 404 <=> resp'.pid \notin PlayerIds(players)
             /\ players' = players
    /\ resp'.op = "delete_return"
          => /\ resp'.status = 200
             /\ resp'.pid \notin PlayerIds(players')
             /\ players' = {p \in players : p.id # resp'.pid}

\* An authorized read_player answers 404 exactly for an id not in the store.
ReadEffect ==
    resp'.op = "read_player_return" =>
        /\ resp'.status = 404 <=> resp'.pid \notin PlayerIds(players)
        /\ players' = players
\* The ids of deleted players: handed out once (at most the high-water mark
\* seq) and no longer in the store.
Deleted(id) == id <= seq /\ id \notin PlayerIds(players)

\* C9 as claimed: a deleted id is never in the store again, whatever
\* request comes next.
C9_DeletedForever ==
    [][/\ DeleteEffect
       /\ ReadEffect
       /\ \A id \in Ids : Deleted(id) => id \notin PlayerIds(players')]_vars

\* C9 amended: a deleted id stays out of the store (read_player answers 404)
\* until a later create_player, or a row of an upload_players_csv, inserts a
\* player to which the store gives that id again.
C9_DeletedUntilReused ==
    [][/\ DeleteEffect
       /\ ReadEffect
       /\ \A id \in Ids :
             Deleted(id) /\ id \in PlayerIds(players')
             => /\ resp'.op \in {"create_commit", "upload_row"}
                /\ resp'.pid = id
                /\ \E p \in players' \ players : p.id = id]_vars

\* read_player has answered 404 for the id of a deleted player while
\* another player is still stored.
C9_Witness ==
    /\ resp.op = "read_player_return"
    /\ resp.status = 404
    /\ Deleted(resp.pid)
    /\ players # {}

-----------------------------------------------------------------------------
(* What the claims about accounts and tokens speak of.                     *)
AuthOps == {"logout", "create_player", "read_players", "read_player",
            "update_player", "delete_player", "search_players_by_name"}

\* The token is missing, malformed, wrongly signed, expired at time t, or
\* names no user of db, or names a deactivated one.
BadToken(tok, db, t) ==
    \/ tok.kind = "none"
    \/ tok.kind = "garbage"
    \/ tok.key # SECRET_KEY
    \/ t >= tok.exp
    \/ \A u \in db : u.username # tok.sub
    \/ \E u \in db : u.username = tok.sub /\ ~u.is_active

\* The steps that change the Player Store, each for a request of its kind
\* that was admitted earlier.
Writes == [create_commit |-> "create", update_commit |-> "update",
           delete_return |-> "delete"]

\* C1: an authenticated endpoint answers 401 to a bad token, leaves both
\* stores alone and goes no further; whatever create/update/delete changed
\* in the Player Store was changed for a request that came with a token
\* that verified to an active user.
C1_BadTokenRejected ==
    [][/\ resp'.op \in AuthOps /\ BadToken(resp'.tok, users, now)
          => /\ resp'.status = 401
             /\ players' = players
             /\ users' = users
             /\ calls' = calls
       /\ \A c \in BagToSet(calls') :
             CopiesIn(c, calls') > CopiesIn(c, calls)
             => \/ resp'.op \in AuthOps /\ ~BadToken(resp'.tok, users, now)
                \/ \E d \in BagToSet(calls) : d.op = c.op /\ d.stage # c.stage
       /\ players' # players
          => /\ resp'.op \in DOMAIN Writes
             /\ \E c \in BagToSet(calls) : c.op = Writes[resp'.op]]_vars

\* With players in the store, a delete was refused to ann's properly signed
\* but expired token.
C1_Witness ==
    /\ resp.op = "delete_player"
    /\ resp.status = 401
    /\ resp.tok.kind = "jwt" /\ resp.tok.key = SECRET_KEY /\ resp.tok.sub = "ann"
    /\ now >= resp.tok.exp
    /\ players # {}

\* C2: the token login issues for u has subject u and expires
\* ACCESS_TOKEN_EXPIRE_MINUTES after its issue; an authenticated endpoint
\* accepts an issued token exactly at the times before its expiry; logout
\* changes nothing, so the token it was called with stays accepted.
C2_TokenLifetime ==
    [][/\ resp'.op = "login" /\ resp'.status = 200
          => /\ resp'.token.kind = "jwt"
             /\ resp'.token.sub = resp'.cred.username
             /\ resp'.token.exp = now + ACCESS_TOKEN_EXPIRE_MINUTES
             /\ decode_token(resp'.token, now) = Some(resp'.cred.username)
             /\ resp'.token \in issued'
       /\ resp'.op \in AuthOps /\ resp'.tok \in issued
          => (resp'.status # 401 <=> now < resp'.tok.exp)
       /\ resp'.op = "logout"
          => UNCHANGED <<users, pending, issued, now, players, seq, uploads, calls>>]_vars

\* logout has accepted, half-way through its life, a token that login issued.
C2_Witness ==
    /\ resp.op = "logout"
    /\ resp.status = 200
    /\ resp.tok \in issued
    /\ now > 0
    /\ now < resp.tok.exp
    /\ \E t \in issued : now >= t.exp

\* C3: a signup whose username is in the store, at its lookup or at its
\* commit, answers 400 (DuplicateUsername) and adds no row; the store never
\* holds two users of one username.
C3_OneUserPerUsername ==
    /\ [](\A u, v \in users : u.username = v.username => u = v)
    /\ [][/\ resp'.op = "signup_lookup" /\ UserRows(users, resp'.cred.username) # {}
              => /\ resp'.status = 400
                 /\ users' = users
                 /\ pending' = pending
          /\ resp'.op = "signup" /\ UserRows(users, resp'.cred.username) # {}
              => /\ resp'.status = 400
                 /\ users' = users]_vars

\* The credentials are those of an account of db.
GoodCredentials(db, username, password) ==
    /\ UserRows(db, username) # {}
    /\ \A u \in UserRows(db, username) : verify_password(password, u.hashed_password)

\* C4: a successful signup makes its credentials good and they stay good;
\* login answers 401 and issues nothing exactly when the credentials are not
\* good, and otherwise answers with a bearer token whose subject is the
\* username.
C4_SignupThenLogin ==
    [][/\ resp'.op = "signup" /\ resp'.status = 200
          => /\ UserRows(users, resp'.cred.username) = {}
             /\ GoodCredentials(users', resp'.cred.username, resp'.cred.password)
       /\ \A c \in Creds :
             GoodCredentials(users, c.username, c.password)
             => GoodCredentials(users', c.username, c.password)
       /\ resp'.op = "login"
          => /\ resp'.status \in {200, 401}
             /\ (resp'.status = 401)
                  <=> ~GoodCredentials(users, resp'.cred.username, resp'.cred.password)
             /\ resp'.status = 401 => (resp'.token = NoToken /\ issued' = issued)
             /\ resp'.status = 200
                  => (/\ resp'.token.kind = "jwt"
                      /\ resp'.token.key = SECRET_KEY
                      /\ resp'.token.sub = resp'.cred.username)]_vars

\* eve has logged in with the password she signed up with, after ann
\* signed up too.
C4_Witness ==
    /\ resp.op = "login"
    /\ resp.status = 200
    /\ resp.cred.username = "eve"
    /\ resp.token.sub = "eve"
    /\ Cardinality(users) = 2

====
